---- MODULE Spec2Model ----
(***************************************************************************)
(* A model of the parallel function-calling test programs:                  *)
(*   - execute (internal/execute.ts, numeric variant) starts one task per   *)
(*     value against one shared API client and joins them with Promise.all; *)
(*   - the agent-based tasks (MicroAgentica) keep a closure variable        *)
(*     `result` that a controller function (setValue / make) overwrites on  *)
(*     every function call the producer issues;                             *)
(*   - the direct-API task (openai.ts) sends one chat completion and        *)
(*     returns JSON.parse of the first tool call's arguments.               *)
(* The producer (the LLM behind the API) is the environment: what it        *)
(* answers is a nondeterministic choice.                                    *)
(***************************************************************************)
EXTENDS Integers, Sequences, FiniteSets, TLC

\* ------------------------------------------------------------------ bounds
\* Number of values / concurrently started tasks (200 in execute.ts).
NumTasks == 2
\* Most function calls one producer response carries.
MaxCalls == 2
\* Number of table names known to the planner.
NumTables == 3
\* Number of business domains (components) the planner groups tables into.
NumDomains == 2
\* Most models of an application handed to the validator.
MaxModels == 2
\* Longest name spelled out character by character.
MaxNameLen == 2
\* Most field names one index lists.
MaxIndexLen == 2
\* How many times one accepted schema is rendered.
MaxRenders == 2

VARIABLES
    variant,    \* which program runs: "number", "agentica", "make", "openai"
    required,   \* the planner's input: the table names the schema needs
    hint,       \* the planner's input: the domains each table is classified into
    plan,       \* the planner's output
    target,     \* the task's targetComponent
    others,     \* the task's otherComponents
    execPc,     \* execute: "start", "awaiting", "reported", "thrown", "absent"
    report,     \* what execute printed
    taskPc,     \* per task: "idle", "started", "waiting", "conversing",
                \*           "fulfilled", "rejected"
    result,     \* per task: the closure variable `result`
    pending,    \* per task: function calls of the current response not yet executed
    writes,     \* per task: how many times its `result` slot was assigned
    writers,    \* per task: the tasks whose function calls assigned its slot
    calls,      \* per task: function calls executed in its conversation
    lastCall,   \* per task: <<argument of the last of them>>, or <<>>
    sent,       \* per task: requests it sent to the producer
    received,   \* per task: function calls its producer's responses carried
    ret,        \* per task: the value its promise was fulfilled with
    request,    \* per task: the body of the request in flight
    application,    \* the validator's input: AutoBePrisma.IApplication
    components,     \* the validator's input: the planned components
    validation,     \* the validator's output
    removed,        \* <<name of the model removed from the application>>, or <<>>
    toolCalls,  \* per task: the `arguments` of the tool calls of its response
    llm,        \* the task's `application`: the ILlmApplication it offers
    analyze,    \* the task's requirement analysis report
    schema,     \* the validator's and renderer's input: an IFile of full IModels
    schemaCheck,    \* the validator's output for it
    rendered,   \* the renderer's output
    previous,   \* the renderer's output before the last rendering
    renders,    \* how many times the schema was rendered
    finished    \* the tasks that returned, in the order they did

\* What a run is given: the program variant and the planned components.
validator == <<application, components, validation, removed>>
detail == <<schema, schemaCheck, rendered, previous, renders>>
inputs == <<variant, required, hint, llm, analyze, validator, detail>>
\* History variables: they record what happened and steer nothing.
history == <<writes, writers, calls, lastCall, sent, received, toolCalls>>
vars == <<inputs, plan, target, others, execPc, report, taskPc, result, pending, history, ret, request, finished>>

Tasks == 1..NumTasks

\* values: new Array(200).fill(0).map((_, i) => i)
values == [i \in Tasks |-> i - 1]

\* What the producer may put in a setValue call of the numeric variant.
ArgValues == 0..(NumTasks - 1)

\* ----------------------------------------------------- schema entities
\* Table (model) names, by index.
Tables == 1..NumTables
Domains == 1..NumDomains

\* AutoBePrisma.IComponent: a filename, a namespace and its table names. The
\* filename schema-{number}-{domain}.prisma and the namespace are given by
\* the domain's number.
Component(d, tbls) == [filename |-> d, namespace |-> d, tables |-> tbls]
NoComponent == [filename |-> 0, namespace |-> 0, tables |-> {}]

\* IFunctionCallingResult, as far as the names of its models.
Object(names) == [kind |-> "object", models |-> names]
Undefined == [kind |-> "undefined", models |-> {}]
Null == [kind |-> "null", models |-> {}]
Candidates == {Object(S) : S \in SUBSET Tables}

\* What the producer may put in a function call, per variant.
Args(v) == IF v = "number" THEN ArgValues ELSE Candidates

NoRequest == [tools |-> FALSE, tool_choice |-> "none"]

\* (mutant) the listener's condition inverted: only a request without tools
\* is edited.
OnRequestWithoutTools(v, req) ==
    IF req.tools THEN req ELSE [req EXCEPT !.tool_choice = "required"]

\* The "request" event listener of each agent-based variant.
OnRequest(v, req) ==
    IF v = "make"
        THEN IF req.tools THEN [req EXCEPT !.tool_choice = "required"] ELSE req
        ELSE [req EXCEPT !.tool_choice = "required"]

\* The initial value of the closure variable `result`.
InitialResult(v) ==
    CASE v = "number" -> 0
      [] v = "agentica" -> Undefined
      [] v = "make" -> Null
      [] OTHER -> Undefined

\* (mutant) one `result` hoisted out of task(): every closure shares it.
ResultSlotShared(i) == 1

\* The variable a task's controller function assigns: its own closure's.
ResultSlot(i) == i

\* (mutant) Promise.any: the join settles with the first task that returns.
AnyFulfilled == \E i \in Tasks : taskPc[i] = "fulfilled"

\* Promise.all fulfils when every task has returned, and rejects with the first
\* rejection.
AllFulfilled == \A i \in Tasks : taskPc[i] = "fulfilled"
SomeRejected == \E i \in Tasks : taskPc[i] = "rejected"

\* A reaction of Promise.all is queued: it runs before any other callback.
JoinReady == execPc = "awaiting" /\ (AllFulfilled \/ SomeRejected)

\* ------------------------------------------------ the agent-based task
\* Whether the agent describes the executed function calls to the user in a
\* further request, which offers no tools (`executor: { describe: null }`
\* disables it).
HasDescribe(v) == v = "make"

\* conversate(): the agent sends the chat completion request that offers the
\* controller's function; the listener edits its body.
AgentRequest(i) ==
    /\ variant # "openai"
    /\ ~JoinReady
    /\ taskPc[i] = "started"
    /\ request' = [request EXCEPT
                     ![i] = OnRequest(variant, [tools |-> TRUE, tool_choice |-> "auto"])]
    /\ taskPc' = [taskPc EXCEPT ![i] = "waiting"]
    /\ sent' = [sent EXCEPT ![i] = @ + 1]
    /\ UNCHANGED <<finished, inputs, plan, target, others, execPc, report, result, pending, ret>>
    /\ UNCHANGED <<writes, writers, calls, lastCall, received, toolCalls>>

\* Whether the describe request of task i is still to be sent.
DescribeDue(i) == HasDescribe(variant) /\ calls[i] > 0 /\ sent[i] = 1

\* The function calls are executed: the agent sends the describe request,
\* which carries no tools; the listener sees it too.
AgentDescribe(i) ==
    /\ variant # "openai"
    /\ ~JoinReady
    /\ taskPc[i] = "conversing"
    /\ pending[i] = 0
    /\ DescribeDue(i)
    /\ request' = [request EXCEPT
                     ![i] = OnRequest(variant, [tools |-> FALSE, tool_choice |-> "auto"])]
    /\ taskPc' = [taskPc EXCEPT ![i] = "waiting"]
    /\ sent' = [sent EXCEPT ![i] = @ + 1]
    /\ UNCHANGED <<finished, inputs, plan, target, others, execPc, report, result, pending, ret>>
    /\ UNCHANGED <<writes, writers, calls, lastCall, received, toolCalls>>

\* The producer's response arrives carrying n function calls to execute.
AgentResponse(i, n) ==
    /\ variant # "openai"
    /\ ~JoinReady
    /\ taskPc[i] = "waiting"
    /\ request[i].tools \/ n = 0
    /\ pending' = [pending EXCEPT ![i] = n]
    /\ taskPc' = [taskPc EXCEPT ![i] = "conversing"]
    /\ request' = [request EXCEPT ![i] = NoRequest]
    /\ received' = [received EXCEPT ![i] = @ + n]
    /\ UNCHANGED <<finished, inputs, plan, target, others, execPc, report, result, ret>>
    /\ UNCHANGED <<writes, writers, calls, lastCall, sent, toolCalls>>

\* (mutant) a controller function that keeps the first value it was given.
SetValueOnce(i, v) ==
    /\ result' = [result EXCEPT ![ResultSlot(i)] = IF writes[ResultSlot(i)] = 0 THEN v ELSE @]
    /\ writes' = [writes EXCEPT ![ResultSlot(i)] = IF @ = 0 THEN 1 ELSE @]
    /\ writers' = [writers EXCEPT ![ResultSlot(i)] = @ \cup {i}]

\* The controller function: setValue: (v) => { result = v.value }, and
\* likewise setValue / make: (v) => { result = v }.
SetValue(i, v) ==
    /\ result' = [result EXCEPT ![ResultSlot(i)] = v]
    /\ writes' = [writes EXCEPT ![ResultSlot(i)] = @ + 1]
    /\ writers' = [writers EXCEPT ![ResultSlot(i)] = @ \cup {i}]

\* The agent executes the next function call of the response.
AgentCall(i, v) ==
    /\ ~JoinReady
    /\ taskPc[i] = "conversing"
    /\ pending[i] > 0
    /\ SetValue(i, v)
    /\ pending' = [pending EXCEPT ![i] = @ - 1]
    /\ calls' = [calls EXCEPT ![i] = @ + 1]
    /\ lastCall' = [lastCall EXCEPT ![i] = <<v>>]
    /\ UNCHANGED <<sent, received, toolCalls>>
    /\ UNCHANGED <<finished, inputs, plan, target, others, execPc, report, taskPc, ret, request>>

\* conversate() resolves and the task returns `result`.
TaskReturn(i) ==
    /\ variant # "openai"
    /\ ~JoinReady
    /\ taskPc[i] = "conversing"
    /\ pending[i] = 0
    /\ ~DescribeDue(i)
    /\ ret' = [ret EXCEPT ![i] = result[ResultSlot(i)]]
    /\ taskPc' = [taskPc EXCEPT ![i] = "fulfilled"]
    /\ finished' = Append(finished, i)
    /\ UNCHANGED <<inputs, plan, target, others, execPc, report, result, pending, history, request>>

\* The request fails (API error, timeout): conversate() throws, the task's
\* promise rejects.
TaskReject(i) ==
    /\ variant # "openai"
    /\ ~JoinReady
    /\ taskPc[i] = "waiting"
    /\ taskPc' = [taskPc EXCEPT ![i] = "rejected"]
    /\ request' = [request EXCEPT ![i] = NoRequest]
    /\ UNCHANGED <<finished, inputs, plan, target, others, execPc, report, result, pending, history, ret>>

\* ------------------------------------------------------------- execute
NoReport == [kind |-> "none", results |-> <<>>]

\* values.map((v) => task(api, application, v)): every task is started, in
\* order, before any callback runs.
StartTasks ==
    /\ execPc = "start"
    /\ execPc' = "awaiting"
    /\ taskPc' = [i \in Tasks |-> "started"]
    /\ result' = [i \in Tasks |-> InitialResult(variant)]
    /\ UNCHANGED <<finished, inputs, plan, target, others, report, pending, history, ret, request>>

\* values.length === results.length && values.every((v, i) => v === results[i])
Equal(vs, rs) ==
    /\ Len(vs) = Len(rs)
    /\ \A i \in 1..Len(vs) : vs[i] = rs[i]

\* Promise.all fulfils with the tasks' values in start order; execute prints
\* "success" or the results.
ExecReport ==
    /\ execPc = "awaiting"
    /\ AllFulfilled
    /\ LET results == [i \in Tasks |-> ret[i]]
       IN  report' = IF Equal(values, results)
                        THEN [kind |-> "success", results |-> <<>>]
                        ELSE [kind |-> "results", results |-> results]
    /\ execPc' = "reported"
    /\ UNCHANGED <<finished, inputs, plan, target, others, taskPc, result, pending, history, ret, request>>

\* Promise.all rejects with the first rejection: execute throws past the
\* comparison and the caller's .catch(console.error) prints the error.
ExecThrow ==
    /\ execPc = "awaiting"
    /\ SomeRejected
    /\ execPc' = "thrown"
    /\ report' = [kind |-> "error", results |-> <<>>]
    /\ UNCHANGED <<finished, inputs, plan, target, others, taskPc, result, pending, history, ret, request>>

\* --------------------------------------------------- component planner
\* The tables a hint classifies into domain d.
TablesOf(req, h, d) == {t \in req : d \in h[t]}

\* The domains that own at least one table, in order.
RECURSIVE ComponentsFrom(_, _, _)
ComponentsFrom(req, h, d) ==
    IF d > NumDomains THEN <<>>
    ELSE IF TablesOf(req, h, d) = {} THEN ComponentsFrom(req, h, d + 1)
    ELSE <<Component(d, TablesOf(req, h, d))>> \o ComponentsFrom(req, h, d + 1)

\* (mutant) the planner without its DuplicateAssignment check.
PlanNoDuplicateCheck(req, h) ==
    IF \E t \in req : h[t] = {}
        THEN [ok |-> FALSE, error |-> "UnassignedTable", components |-> <<>>]
        ELSE [ok |-> TRUE, error |-> "none", components |-> ComponentsFrom(req, h, 1)]

\* The planner: every required table in exactly one component, or an error.
Plan(req, h) ==
    IF \E t \in req : h[t] = {}
        THEN [ok |-> FALSE, error |-> "UnassignedTable", components |-> <<>>]
    ELSE IF \E t \in req : Cardinality(h[t]) > 1
        THEN [ok |-> FALSE, error |-> "DuplicateAssignment", components |-> <<>>]
    ELSE [ok |-> TRUE, error |-> "none", components |-> ComponentsFrom(req, h, 1)]

NoPlan == [ok |-> FALSE, error |-> "unplanned", components |-> <<>>]

\* Planning, ahead of every generation.
PlanComponents ==
    /\ variant # "number"
    /\ plan = NoPlan
    /\ plan' = Plan(required, hint)
    /\ UNCHANGED <<finished, inputs, target, others, execPc, report, taskPc, result, pending,
                   history, ret, request>>

\* The sequence s without its k-th element.
Without(s, k) == [j \in 1..(Len(s) - 1) |-> IF j < k THEN s[j] ELSE s[j + 1]]

\* task(api, application, systemPrompt, analyze, targetComponent,
\* otherComponents) is called for one planned component, up to its first
\* await. One generation is followed per run.
TaskCall(i, k) ==
    /\ variant # "number"
    /\ plan.ok
    /\ k \in 1..Len(plan.components)
    /\ taskPc[i] = "idle"
    /\ \A j \in Tasks : taskPc[j] = "idle"
    /\ target' = plan.components[k]
    /\ others' = Without(plan.components, k)
    /\ taskPc' = [taskPc EXCEPT ![i] = "started"]
    /\ result' = [result EXCEPT ![i] = InitialResult(variant)]
    /\ UNCHANGED <<finished, inputs, plan, execPc, report, pending, history, ret, request>>

\* ------------------------------------------------- the direct-API task
\* A tool call's `arguments`: JSON text of a value, or text that is no JSON.
Stringify(c) == [json |-> TRUE, value |-> c]
NotJSON == [json |-> FALSE, value |-> Undefined]
ArgumentTexts == {Stringify(c) : c \in Candidates \cup {Null}} \cup {NotJSON}

\* JSON.parse: the value the text denotes, or a SyntaxError.
JSONParse(text) ==
    IF text.json THEN [threw |-> FALSE, value |-> text.value]
                 ELSE [threw |-> TRUE, value |-> Undefined]

\* (mutant) the prompt is built by pushing targetComponent onto the caller's
\* otherComponents array before it is stringified.
OpenAIRequestPushingTarget(i) ==
    /\ variant = "openai"
    /\ taskPc[i] = "started"
    /\ request' = [request EXCEPT ![i] = [tools |-> TRUE, tool_choice |-> "required"]]
    /\ taskPc' = [taskPc EXCEPT ![i] = "waiting"]
    /\ sent' = [sent EXCEPT ![i] = @ + 1]
    /\ others' = Append(others, target)
    /\ UNCHANGED <<finished, inputs, plan, target, execPc, report, result, pending, ret>>
    /\ UNCHANGED <<writes, writers, calls, lastCall, received, toolCalls>>

\* api.chat.completions.create({..., tools: [...], tool_choice: "required"}):
\* the inputs are read into the prompt (JSON.stringify), none is written.
OpenAIRequest(i) ==
    /\ variant = "openai"
    /\ taskPc[i] = "started"
    /\ request' = [request EXCEPT ![i] = [tools |-> TRUE, tool_choice |-> "required"]]
    /\ taskPc' = [taskPc EXCEPT ![i] = "waiting"]
    /\ sent' = [sent EXCEPT ![i] = @ + 1]
    /\ UNCHANGED <<finished, inputs, plan, target, others, execPc, report, result, pending, ret>>
    /\ UNCHANGED <<writes, writers, calls, lastCall, received, toolCalls>>

\* The request fails: the await throws and the task rejects.
OpenAIError(i) ==
    /\ variant = "openai"
    /\ taskPc[i] = "waiting"
    /\ taskPc' = [taskPc EXCEPT ![i] = "rejected"]
    /\ request' = [request EXCEPT ![i] = NoRequest]
    /\ UNCHANGED <<finished, inputs, plan, target, others, execPc, report, result, pending,
                   history, ret>>

\* What the model lets the tool calls after the first carry: text that is no
\* JSON, or an object of no models.
FurtherArgumentTexts == {NotJSON, Stringify(Object({}))}

\* (mutant) tool_calls[tool_calls.length - 1]
LastToolCall(tool_calls) == tool_calls[Len(tool_calls)]

\* response.choices[0].message.tool_calls![0]
FirstToolCall(tool_calls) == tool_calls[1]

\* The response arrives with n tool calls, the first with arguments `first`
\* and the others with arguments `other`:
\* JSON.parse(response.choices[0].message.tool_calls![0].function.arguments)
\* is returned, and a missing tool call or a SyntaxError rejects the task.
OpenAIResponse(i, n, first, other) ==
    /\ variant = "openai"
    /\ taskPc[i] = "waiting"
    /\ request' = [request EXCEPT ![i] = NoRequest]
    /\ received' = [received EXCEPT ![i] = n]
    /\ LET tool_calls == [k \in 1..n |-> IF k = 1 THEN first ELSE other]
       IN  /\ toolCalls' = [toolCalls EXCEPT ![i] = tool_calls]
           /\ IF n = 0 \/ JSONParse(FirstToolCall(tool_calls)).threw
                 THEN /\ taskPc' = [taskPc EXCEPT ![i] = "rejected"]
                      /\ ret' = ret
                      /\ finished' = finished
                 ELSE /\ taskPc' = [taskPc EXCEPT ![i] = "fulfilled"]
                      /\ ret' = [ret EXCEPT ![i] = JSONParse(FirstToolCall(tool_calls)).value]
                      /\ finished' = Append(finished, i)
    /\ UNCHANGED <<inputs, plan, target, others, execPc, report, result, pending>>
    /\ UNCHANGED <<writes, writers, calls, lastCall, sent>>

\* -------------------------------------------------- structural validator
\* AutoBePrisma.IForeignField with its IRelation; the field is named after
\* its target ({target}_id).
ForeignField(tgt) ==
    [name |-> tgt, relation |-> [targetModel |-> tgt, mappingName |-> <<>>]]
\* AutoBePrisma.IModel, as far as its name and its foreign fields.
Model(name, ffs) == [name |-> name, foreignFields |-> ffs]
\* AutoBePrisma.IFile.
File(filename, namespace, models) ==
    [filename |-> filename, namespace |-> namespace, models |-> models]

NamesOfFile(file) == {file.models[m].name : m \in DOMAIN file.models}
ModelNames(app) == UNION {NamesOfFile(app[f]) : f \in DOMAIN app}

\* Every foreign field of an application, by position <<file, model, field>>.
FieldSites(app) ==
    UNION {UNION {{<<f, m, k>> : k \in DOMAIN app[f].models[m].foreignFields} :
                    m \in DOMAIN app[f].models} :
             f \in DOMAIN app}
FieldAt(app, s) == app[s[1]].models[s[2]].foreignFields[s[3]]
\* The entity path of a foreign field: file, model, field.
PathOf(app, s) ==
    <<app[s[1]].filename, app[s[1]].models[s[2]].name, FieldAt(app, s).name>>

Violation(kind, path) == [kind |-> kind, path |-> path]

\* Global name uniqueness.
DuplicateModels(app) ==
    {Violation("DuplicateModel", <<n>>) :
        n \in {x \in ModelNames(app) :
                 \E f \in DOMAIN app : \E m \in DOMAIN app[f].models :
                    \E g \in DOMAIN app : \E k \in DOMAIN app[g].models :
                        /\ <<f, m>> # <<g, k>>
                        /\ app[f].models[m].name = x
                        /\ app[g].models[k].name = x}}

\* Component/File correspondence, both directions reported separately.
Correspondence(app, comps) ==
    UNION {
        LET files == {f \in DOMAIN app :
                         /\ app[f].filename = comps[c].filename
                         /\ app[f].namespace = comps[c].namespace}
        IN  IF Cardinality(files) # 1
                THEN {Violation("MissingFile", <<comps[c].filename>>)}
                ELSE LET file == app[CHOOSE f \in files : TRUE]
                     IN  {Violation("MissingModel", <<file.filename, t>>) :
                             t \in comps[c].tables \ NamesOfFile(file)}
                         \cup
                         {Violation("UnexpectedModel", <<file.filename, n>>) :
                             n \in NamesOfFile(file) \ comps[c].tables}
        : c \in DOMAIN comps}

\* (mutant) the target model looked up in the foreign field's own file only.
ReferentialIntegritySameFile(app) ==
    {Violation("ReferentialIntegrity", PathOf(app, s)) :
        s \in {x \in FieldSites(app) :
                 FieldAt(app, x).relation.targetModel \notin NamesOfFile(app[x[1]])}}

\* Referential integrity: every foreign field's relation.targetModel names a
\* model that exists anywhere in the application.
ReferentialIntegrity(app) ==
    {Violation("ReferentialIntegrity", PathOf(app, s)) :
        s \in {x \in FieldSites(app) :
                 FieldAt(app, x).relation.targetModel \notin ModelNames(app)}}

\* Every file has at least one model.
EmptyFiles(app) ==
    {Violation("EmptyFile", <<app[f].filename>>) :
        f \in {g \in DOMAIN app : Len(app[g].models) = 0}}

\* validate(application, components): all violations, collected.
Validate(app, comps) ==
    LET violations == DuplicateModels(app) \cup Correspondence(app, comps)
                        \cup ReferentialIntegrity(app) \cup EmptyFiles(app)
    IN  [accepted |-> violations = {}, violations |-> violations]

NoValidation == [accepted |-> FALSE, violations |-> {Violation("Unvalidated", <<>>)}]

\* A set of table names as a sequence, in increasing order.
RECURSIVE SeqOf(_)
SeqOf(S) ==
    IF S = {} THEN <<>>
    ELSE LET least == CHOOSE x \in S : \A y \in S : x <= y
         IN  <<least>> \o SeqOf(S \ {least})

\* The file a task's result stands for: the target component's, holding one
\* model per name of the result.
FileOf(c, tgt) ==
    File(tgt.filename, tgt.namespace,
         [m \in 1..Cardinality(c.models) |-> Model(SeqOf(c.models)[m], <<>>)])

\* The validator on one task's result, against its target component.
ValidateCandidate(c, tgt) ==
    IF c.kind # "object"
        THEN [accepted |-> FALSE, violations |-> {Violation("Malformed", <<tgt.filename>>)}]
        ELSE Validate(<<FileOf(c, tgt)>>, <<tgt>>)

\* The application without its models named `name`.
RemoveModel(app, name) ==
    [f \in DOMAIN app |->
        [app[f] EXCEPT !.models =
            SelectSeq(app[f].models, LAMBDA m : m.name # name)]]

\* validate is run on the application.
RunValidate ==
    /\ variant = "validate"
    /\ validation = NoValidation
    /\ validation' = Validate(application, components)
    /\ UNCHANGED <<variant, required, hint, llm, analyze, detail, application, components, removed>>
    /\ UNCHANGED <<plan, target, others, execPc, report, taskPc, result, pending,
                   history, ret, request, finished>>

\* A model that some foreign field targets is removed from an accepted
\* application, which is validated again.
RemoveAndValidate(name) ==
    /\ variant = "validate"
    /\ validation.accepted
    /\ removed = <<>>
    /\ \E s \in FieldSites(application) :
          FieldAt(application, s).relation.targetModel = name
    /\ application' = RemoveModel(application, name)
    /\ validation' = Validate(application', components)
    /\ removed' = <<name>>
    /\ UNCHANGED <<variant, required, hint, llm, analyze, detail, components>>
    /\ UNCHANGED <<plan, target, others, execPc, report, taskPc, result, pending,
                   history, ret, request, finished>>

\* The models an application under validation may hold.
ModelChoices ==
    {Model(n, ffs) : n \in Tables,
                     ffs \in {<<>>} \cup {<<ForeignField(t)>> : t \in Tables}}

\* An application of one or two files: the first k models in the first
\* file, the others in the second.
Split(models, k) ==
    IF k = Len(models)
        THEN <<File(1, 1, models)>>
        ELSE <<File(1, 1, SubSeq(models, 1, k)), File(2, 2, SubSeq(models, k + 1, Len(models)))>>

\* The components the files of an application answer to.
ComponentsOf(app) == [f \in DOMAIN app |-> Component(app[f].filename, NamesOfFile(app[f]))]

\* ------------------------------------------ the validator, inside a model
\* A name is spelled as a sequence of characters, each standing for its
\* class: "a" a lowercase letter, "A" an uppercase letter, "1" a digit and
\* "_" the underscore.
Chars == {"a", "A", "1", "_"}
Strings(n) == UNION {[1..k -> Chars] : k \in 0..n}

\* (mutant) the pattern of IRelation.name, ^[a-zA-Z_][a-zA-Z0-9_]*$, applied
\* to every name.
PatternOfRelationName(s) ==
    /\ Len(s) >= 1
    /\ s[1] \in {"a", "A", "_"}

\* tags.Pattern<"^[a-z][a-z0-9_]*$">: whether the text matches.
Pattern(s) ==
    /\ Len(s) >= 1
    /\ s[1] = "a"
    /\ \A k \in 2..Len(s) : s[k] \in {"a", "1", "_"}

\* (mutant) tags.MinItems<0>.
MinItemsNone(s) == Len(s) >= 0

\* tags.MinItems<1>
MinItems(s) == Len(s) >= 1

\* tags.UniqueItems
UniqueItems(s) == \A i \in DOMAIN s : \A j \in DOMAIN s : i # j => s[i] # s[j]

\* AutoBePrisma.IPrimaryField, IForeignField (mappingName: <<>> when not
\* given, else <<the name>>), IPlainField and the three kinds of index.
IPrimaryField(name) == [name |-> name]
IForeignField(name, tgt, mapping) ==
    [name |-> name, relation |-> [targetModel |-> tgt, mappingName |-> mapping]]
IPlainField(name) == [name |-> name]
IUniqueIndex(fieldNames) == [fieldNames |-> fieldNames, unique |-> TRUE]
IPlainIndex(fieldNames) == [fieldNames |-> fieldNames]
IGinIndex(fieldName) == [fieldName |-> fieldName]

\* AutoBePrisma.IModel, in full.
IModel(name, primary, ffs, pfs, uis, pis, gis) ==
    [name |-> name, primaryField |-> primary, foreignFields |-> ffs,
     plainFields |-> pfs, uniqueIndexes |-> uis, plainIndexes |-> pis,
     ginIndexes |-> gis]

Range(s) == {s[k] : k \in DOMAIN s}

\* The names of a model's fields: primary, foreign and plain.
FieldNamesOf(m) ==
    {m.primaryField.name} \cup {f.name : f \in Range(m.foreignFields)}
        \cup {f.name : f \in Range(m.plainFields)}

\* The field-name lists of a model's unique and plain indexes.
IndexListsOf(m) ==
    {x.fieldNames : x \in Range(m.uniqueIndexes)}
        \cup {x.fieldNames : x \in Range(m.plainIndexes)}

\* Every field name some index of the model lists.
IndexedNamesOf(m) ==
    UNION {Range(l) : l \in IndexListsOf(m)}
        \cup {x.fieldName : x \in Range(m.ginIndexes)}

\* Identifier well-formedness: the model's name, its fields' names and the
\* names its indexes list all match the pattern.
IdentifierWellFormedness(m) ==
    {Violation("InvalidIdentifier", <<m.name, n>>) :
        n \in {x \in {m.name} \cup FieldNamesOf(m) \cup IndexedNamesOf(m) :
                 ~Pattern(x)}}

\* Field-set uniqueness: no two fields of a model share a name.
DuplicateFields(m) ==
    LET names == <<m.primaryField.name>>
                    \o [k \in DOMAIN m.foreignFields |-> m.foreignFields[k].name]
                    \o [k \in DOMAIN m.plainFields |-> m.plainFields[k].name]
    IN  {Violation("DuplicateField", <<m.name, names[k]>>) :
            k \in {i \in DOMAIN names : \E j \in DOMAIN names :
                                           i # j /\ names[i] = names[j]}}

\* Index field existence: every field an index names is a field of the
\* owning model.
IndexFieldExistence(m) ==
    {Violation("UnknownIndexField", <<m.name, n>>) :
        n \in IndexedNamesOf(m) \ FieldNamesOf(m)}

\* Non-empty requirements on indexes: a field-name list has at least one
\* entry and no entry twice.
IndexRequirements(m) ==
    {Violation("EmptyIndex", <<m.name>>) :
        l \in {x \in IndexListsOf(m) : ~MinItems(x)}}
    \cup
    {Violation("DuplicateIndexField", <<m.name>> \o l) :
        l \in {x \in IndexListsOf(m) : ~UniqueItems(x)}}

\* (mutant) only relations that both carry a mappingName are compared.
RelationDisambiguationNamedOnly(m) ==
    {Violation("AmbiguousRelation", <<m.name, m.foreignFields[p[1]].name,
                                      m.foreignFields[p[2]].name>>) :
        p \in {q \in (DOMAIN m.foreignFields) \X (DOMAIN m.foreignFields) :
                 /\ q[1] < q[2]
                 /\ m.foreignFields[q[1]].relation.targetModel
                       = m.foreignFields[q[2]].relation.targetModel
                 /\ m.foreignFields[q[1]].relation.mappingName # <<>>
                 /\ m.foreignFields[q[1]].relation.mappingName
                       = m.foreignFields[q[2]].relation.mappingName}}

\* Relation disambiguation: two foreign fields of a model that target the
\* same model carry different mappingNames; two that carry none are not
\* told apart.
RelationDisambiguation(m) ==
    {Violation("AmbiguousRelation", <<m.name, m.foreignFields[p[1]].name,
                                      m.foreignFields[p[2]].name>>) :
        p \in {q \in (DOMAIN m.foreignFields) \X (DOMAIN m.foreignFields) :
                 /\ q[1] < q[2]
                 /\ m.foreignFields[q[1]].relation.targetModel
                       = m.foreignFields[q[2]].relation.targetModel
                 /\ m.foreignFields[q[1]].relation.mappingName
                       = m.foreignFields[q[2]].relation.mappingName}}

\* The checks inside one model.
ValidateModel(m) ==
    IdentifierWellFormedness(m) \cup DuplicateFields(m)
        \cup IndexFieldExistence(m) \cup IndexRequirements(m)
        \cup RelationDisambiguation(m)

\* validate(application, components) on full models: the checks across
\* models and the checks inside each.
ValidateSchema(app, comps) ==
    LET violations ==
            Validate(app, comps).violations
                \cup UNION {UNION {ValidateModel(app[f].models[m]) :
                                      m \in DOMAIN app[f].models} :
                              f \in DOMAIN app}
    IN  [accepted |-> violations = {}, violations |-> violations]

\* ---------------------------------------------------------- the renderer
\* One line of Prisma text: what it declares, in which model, and the names
\* it spells.
Line(kind, of, names) == [kind |-> kind, of |-> of, names |-> names]

\* (mutant) the plain fields are written before the foreign fields.
RenderModelPlainFirst(m) ==
    <<Line("model", m.name, <<m.name>>)>>
    \o <<Line("primary", m.name, <<m.primaryField.name>>)>>
    \o [k \in DOMAIN m.plainFields |->
            Line("plain", m.name, <<m.plainFields[k].name>>)]
    \o [k \in DOMAIN m.foreignFields |->
            Line("foreign", m.name, <<m.foreignFields[k].name>>)]
    \o [k \in DOMAIN m.uniqueIndexes |->
            Line("unique", m.name, m.uniqueIndexes[k].fieldNames)]
    \o [k \in DOMAIN m.plainIndexes |->
            Line("index", m.name, m.plainIndexes[k].fieldNames)]
    \o [k \in DOMAIN m.ginIndexes |->
            Line("gin", m.name, <<m.ginIndexes[k].fieldName>>)]

\* The text of one model: its fields primary, foreign, plain, then its
\* indexes unique, plain, full-text, each kind in declaration order.
RenderModel(m) ==
    <<Line("model", m.name, <<m.name>>)>>
    \o <<Line("primary", m.name, <<m.primaryField.name>>)>>
    \o [k \in DOMAIN m.foreignFields |->
            Line("foreign", m.name, <<m.foreignFields[k].name>>)]
    \o [k \in DOMAIN m.plainFields |->
            Line("plain", m.name, <<m.plainFields[k].name>>)]
    \o [k \in DOMAIN m.uniqueIndexes |->
            Line("unique", m.name, m.uniqueIndexes[k].fieldNames)]
    \o [k \in DOMAIN m.plainIndexes |->
            Line("index", m.name, m.plainIndexes[k].fieldNames)]
    \o [k \in DOMAIN m.ginIndexes |->
            Line("gin", m.name, <<m.ginIndexes[k].fieldName>>)]

\* The text of a file: its models in declaration order.
RECURSIVE RenderModels(_)
RenderModels(models) ==
    IF models = <<>> THEN <<>>
    ELSE RenderModel(Head(models)) \o RenderModels(Tail(models))

\* render(application): filename -> text.
Render(app) ==
    [fn \in {app[f].filename : f \in DOMAIN app} |->
        RenderModels(app[CHOOSE f \in DOMAIN app : app[f].filename = fn].models)]

\* ------------------------------------------------- schemas under test
\* The names the schemas under test spell.
Spelled ==
    [model |-> <<"a">>, other |-> <<"a", "_">>, id |-> <<"a">>,
     fk |-> <<"a", "a">>, col |-> <<"a", "1">>, alien |-> <<"a", "_">>]

\* Where a name occurs in a model.
Sites == {"model", "primary", "foreign", "plain", "unique", "index", "gin"}

\* A model with the name x at one site; an index that lists x comes with or
\* without a plain field declared under that name.
NamedAt(site, x, declared) ==
    IModel(IF site = "model" THEN x ELSE Spelled.model,
           IPrimaryField(IF site = "primary" THEN x ELSE Spelled.id),
           IF site = "foreign" THEN <<IForeignField(x, Spelled.model, <<>>)>> ELSE <<>>,
           IF site = "plain" \/ (site \in {"unique", "index", "gin"} /\ declared)
               THEN <<IPlainField(x)>> ELSE <<>>,
           IF site = "unique" THEN <<IUniqueIndex(<<x>>)>> ELSE <<>>,
           IF site = "index" THEN <<IPlainIndex(<<x>>)>> ELSE <<>>,
           IF site = "gin" THEN <<IGinIndex(x)>> ELSE <<>>)

\* A model of three fields with one index over the given list of names.
IndexedBy(kind, l) ==
    IModel(Spelled.model, IPrimaryField(Spelled.id),
           <<IForeignField(Spelled.fk, Spelled.model, <<>>)>>,
           <<IPlainField(Spelled.col)>>,
           IF kind = "unique" THEN <<IUniqueIndex(l)>> ELSE <<>>,
           IF kind = "index" THEN <<IPlainIndex(l)>> ELSE <<>>,
           <<>>)

\* A model of two foreign fields, with their targets and mappingNames.
RelatedBy(t1, m1, t2, m2) ==
    IModel(Spelled.model, IPrimaryField(Spelled.id),
           <<IForeignField(Spelled.fk, t1, m1), IForeignField(Spelled.alien, t2, m2)>>,
           <<IPlainField(Spelled.col)>>,
           <<IUniqueIndex(<<Spelled.fk, Spelled.col>>)>>,
           <<IPlainIndex(<<Spelled.alien>>)>>,
           <<IGinIndex(Spelled.col)>>)

ModelsUnderTest ==
    {NamedAt(site, x, declared) :
        site \in Sites, x \in Strings(MaxNameLen), declared \in BOOLEAN}
    \cup
    {IndexedBy(kind, l) :
        kind \in {"unique", "index"},
        l \in UNION {[1..k -> {Spelled.id, Spelled.fk, Spelled.col, Spelled.alien}] :
                       k \in 0..MaxIndexLen}}
    \cup
    {RelatedBy(t1, m1, t2, m2) :
        t1 \in {Spelled.model, Spelled.other}, t2 \in {Spelled.model, Spelled.other},
        m1 \in {<<>>, <<Spelled.id>>, <<Spelled.col>>},
        m2 \in {<<>>, <<Spelled.id>>, <<Spelled.col>>}}

\* A second model, for the model under test to stand before or after.
OtherModel ==
    IModel(Spelled.other, IPrimaryField(Spelled.id), <<>>, <<>>, <<>>, <<>>, <<>>)

\* The file of the model under test: alone, or before or after the other.
Arrange(m, a) ==
    CASE a = 1 -> File(1, 1, <<m>>)
      [] a = 2 -> File(1, 1, <<m, OtherModel>>)
      [] OTHER -> File(1, 1, <<OtherModel, m>>)

\* validate is run on the schema.
RunValidateSchema ==
    /\ variant = "schema"
    /\ schemaCheck = NoValidation
    /\ schemaCheck' = ValidateSchema(<<schema>>, ComponentsOf(<<schema>>))
    /\ UNCHANGED <<variant, required, hint, llm, analyze, validator, schema,
                   rendered, previous, renders>>
    /\ UNCHANGED <<plan, target, others, execPc, report, taskPc, result, pending,
                   history, ret, request, finished>>

\* render is run on the schema, which validate accepted.
RenderSchema ==
    /\ variant = "schema"
    /\ schemaCheck.accepted
    /\ renders < MaxRenders
    /\ previous' = rendered
    /\ rendered' = Render(<<schema>>)
    /\ renders' = renders + 1
    /\ UNCHANGED <<variant, required, hint, llm, analyze, validator, schema,
                   schemaCheck>>
    /\ UNCHANGED <<plan, target, others, execPc, report, taskPc, result, pending,
                   history, ret, request, finished>>

\* --------------------------------------------------------------- runs
Variants == {"number", "agentica", "make", "openai"}

\* The ILlmApplication a task is given: the one function of IApplication
\* (setValue, or make in the variant that names it so).
LlmApplication(v) ==
    [functions |-> <<[name |-> IF v = "make" THEN "make" ELSE "setValue"]>>]
\* The requirement analysis report a task is given: file name -> content.
AnalysisReport == [file \in {"requirements.md"} |-> "content"]

\* No schema is under validation or rendering.
NoSchema ==
    /\ schema = <<>>
    /\ schemaCheck = NoValidation
    /\ rendered = <<>>
    /\ previous = <<>>
    /\ renders = 0

Init ==
    /\ variant \in Variants
    /\ IF variant = "number"
          THEN /\ required = {}
               /\ hint = <<>>
               /\ execPc = "start"
          ELSE /\ required \in SUBSET Tables \ {{}}
               /\ hint \in [required -> SUBSET Domains]
               /\ execPc = "absent"
    /\ plan = NoPlan
    /\ target = NoComponent
    /\ others = <<>>
    /\ report = NoReport
    /\ taskPc = [i \in Tasks |-> "idle"]
    /\ result = [i \in Tasks |-> InitialResult(variant)]
    /\ pending = [i \in Tasks |-> 0]
    /\ writes = [i \in Tasks |-> 0]
    /\ writers = [i \in Tasks |-> {}]
    /\ calls = [i \in Tasks |-> 0]
    /\ lastCall = [i \in Tasks |-> <<>>]
    /\ sent = [i \in Tasks |-> 0]
    /\ received = [i \in Tasks |-> 0]
    /\ ret = [i \in Tasks |-> InitialResult(variant)]
    /\ request = [i \in Tasks |-> NoRequest]
    /\ application = <<>>
    /\ components = <<>>
    /\ validation = NoValidation
    /\ removed = <<>>
    /\ toolCalls = [i \in Tasks |-> <<>>]
    /\ finished = <<>>
    /\ llm = LlmApplication(variant)
    /\ analyze = AnalysisReport
    /\ NoSchema

Next ==
    \/ StartTasks
    \/ PlanComponents
    \/ \E k \in 1..NumDomains : TaskCall(1, k)
    \/ \E i \in Tasks : AgentRequest(i)
    \/ \E i \in Tasks : AgentDescribe(i)
    \/ \E i \in Tasks : \E n \in 0..MaxCalls : AgentResponse(i, n)
    \/ \E i \in Tasks : \E v \in Args(variant) : AgentCall(i, v)
    \/ \E i \in Tasks : TaskReturn(i)
    \/ \E i \in Tasks : TaskReject(i)
    \/ \E i \in Tasks : OpenAIRequest(i)
    \/ \E i \in Tasks : OpenAIError(i)
    \/ \E i \in Tasks : \E n \in 0..MaxCalls : \E first \in ArgumentTexts :
          \E other \in FurtherArgumentTexts : OpenAIResponse(i, n, first, other)
    \/ ExecReport
    \/ ExecThrow

Spec == Init /\ [][Next]_vars

\* Runs of execute alone, with the one scheduling guarantee the join needs:
\* the reaction of a settled Promise.all is a queued job, and a queued job
\* runs.
InitJoin == Init /\ variant = "number"

NextJoin ==
    \/ StartTasks
    \/ \E i \in Tasks : AgentRequest(i)
    \/ \E i \in Tasks : \E n \in 0..MaxCalls : AgentResponse(i, n)
    \/ \E i \in Tasks : \E v \in ArgValues : AgentCall(i, v)
    \/ \E i \in Tasks : TaskReturn(i)
    \/ \E i \in Tasks : TaskReject(i)
    \/ ExecReport
    \/ ExecThrow

SpecJoin == InitJoin /\ [][NextJoin]_vars /\ WF_vars(ExecReport)

\* Runs of the validator alone, on applications drawn from a bounded set.
InitValidate ==
    /\ variant = "validate"
    /\ \E n \in 1..MaxModels : \E models \in [1..n -> ModelChoices] : \E k \in 1..n :
          /\ application = Split(models, k)
          /\ components = ComponentsOf(Split(models, k))
    /\ validation = NoValidation
    /\ removed = <<>>
    /\ required = {}
    /\ hint = <<>>
    /\ plan = NoPlan
    /\ target = NoComponent
    /\ others = <<>>
    /\ execPc = "absent"
    /\ report = NoReport
    /\ taskPc = [i \in Tasks |-> "idle"]
    /\ result = [i \in Tasks |-> Undefined]
    /\ pending = [i \in Tasks |-> 0]
    /\ writes = [i \in Tasks |-> 0]
    /\ writers = [i \in Tasks |-> {}]
    /\ calls = [i \in Tasks |-> 0]
    /\ lastCall = [i \in Tasks |-> <<>>]
    /\ sent = [i \in Tasks |-> 0]
    /\ received = [i \in Tasks |-> 0]
    /\ ret = [i \in Tasks |-> Undefined]
    /\ request = [i \in Tasks |-> NoRequest]
    /\ toolCalls = [i \in Tasks |-> <<>>]
    /\ finished = <<>>
    /\ llm = LlmApplication(variant)
    /\ analyze = AnalysisReport
    /\ NoSchema

NextValidate ==
    \/ RunValidate
    \/ \E name \in Tables : RemoveAndValidate(name)

SpecValidate == InitValidate /\ [][NextValidate]_vars

\* Runs of the validator and the renderer on one file of full models.
InitSchema ==
    /\ variant = "schema"
    /\ \E m \in ModelsUnderTest : \E a \in 1..3 : schema = Arrange(m, a)
    /\ schemaCheck = NoValidation
    /\ rendered = <<>>
    /\ previous = <<>>
    /\ renders = 0
    /\ application = <<>>
    /\ components = <<>>
    /\ validation = NoValidation
    /\ removed = <<>>
    /\ required = {}
    /\ hint = <<>>
    /\ plan = NoPlan
    /\ target = NoComponent
    /\ others = <<>>
    /\ execPc = "absent"
    /\ report = NoReport
    /\ taskPc = [i \in Tasks |-> "idle"]
    /\ result = [i \in Tasks |-> Undefined]
    /\ pending = [i \in Tasks |-> 0]
    /\ writes = [i \in Tasks |-> 0]
    /\ writers = [i \in Tasks |-> {}]
    /\ calls = [i \in Tasks |-> 0]
    /\ lastCall = [i \in Tasks |-> <<>>]
    /\ sent = [i \in Tasks |-> 0]
    /\ received = [i \in Tasks |-> 0]
    /\ ret = [i \in Tasks |-> Undefined]
    /\ request = [i \in Tasks |-> NoRequest]
    /\ toolCalls = [i \in Tasks |-> <<>>]
    /\ finished = <<>>
    /\ llm = LlmApplication(variant)
    /\ analyze = AnalysisReport

NextSchema ==
    \/ RunValidateSchema
    \/ RenderSchema

SpecSchema == InitSchema /\ [][NextSchema]_vars

\* ================================================================ claims
AgentVariants == {"number", "agentica", "make"}
SchemaVariants == {"agentica", "make", "openai"}
Ended(i) == taskPc[i] \in {"fulfilled", "rejected"}

\* C1 (as stated): every task returns exactly the value it was asked to
\* set, results[i] = values[i], whatever the producer's calls are.
C1_EveryTaskReturnsItsValue ==
    variant = "number" =>
        \A i \in Tasks : taskPc[i] = "fulfilled" => ret[i] = values[i]

\* C1 (amended): a task's result variable is assigned by the function calls
\* of its own conversation only; the task returns the argument of the last
\* of them, or 0 when none was executed; and execute reports "success"
\* exactly when results[i] = values[i] for every i.
C1_OwnCallsDecideResult ==
    variant = "number" =>
        /\ \A i \in Tasks : writers[i] \subseteq {i}
        /\ \A i \in Tasks :
              taskPc[i] = "fulfilled" =>
                  ret[i] = IF lastCall[i] = <<>> THEN 0 ELSE lastCall[i][1]
        /\ execPc = "reported" =>
              (report.kind = "success" <=> \A i \in Tasks : ret[i] = values[i])

\* Every task executed a function call and execute reported "success".
C1_Witness ==
    /\ variant = "number"
    /\ execPc = "reported"
    /\ report.kind = "success"
    /\ \A i \in Tasks : calls[i] >= 1

\* C2: when one task's producer call fails, every other task that runs to
\* completion still has its result delivered by execute.
C2_OtherResultsDelivered ==
    variant = "number" =>
        \A i \in Tasks :
            (taskPc[i] = "fulfilled" /\ execPc \in {"reported", "thrown"})
                => report.kind \in {"success", "results"}

\* C3: a candidate is returned to the caller as a success only after the
\* validator accepted it.
C3_ReturnedOnlyIfAccepted ==
    variant \in SchemaVariants =>
        \A i \in Tasks :
            taskPc[i] = "fulfilled" => ValidateCandidate(ret[i], target).accepted

\* The last candidate the producer gave task i, if any.
LastCandidate(i) ==
    IF variant = "openai"
        THEN IF taskPc[i] = "fulfilled" THEN <<ret[i]>> ELSE <<>>
        ELSE lastCall[i]

\* C4: a generation that ends after a candidate that fails validation ends
\* as failed, having asked the producer again.
C4_FailedCandidateEndsFailed ==
    variant \in SchemaVariants =>
        \A i \in Tasks :
            (/\ Ended(i)
             /\ LastCandidate(i) # <<>>
             /\ ~ValidateCandidate(LastCandidate(i)[1], target).accepted)
                => (taskPc[i] = "rejected" /\ sent[i] > 1)

\* C5: a producer failure is surfaced only after the producer call was
\* retried.
C5_FailureRetriedBeforeSurfaced ==
    variant = "openai" =>
        \A i \in Tasks : taskPc[i] = "rejected" => sent[i] > 1

OtherTables == UNION {others[k].tables : k \in DOMAIN others}

\* C8: no result returned for a component holds a model named like a table
\* of another component.
C8_NoLeakedTable ==
    variant \in SchemaVariants =>
        \A i \in Tasks : taskPc[i] = "fulfilled" => ret[i].models \cap OtherTables = {}

\* Components partition the tables req: each non-empty, pairwise disjoint,
\* their union req.
Partition(comps, req) ==
    /\ \A c \in DOMAIN comps : comps[c].tables # {}
    /\ \A c, d \in DOMAIN comps : c # d => comps[c].tables \cap comps[d].tables = {}
    /\ UNION {comps[c].tables : c \in DOMAIN comps} = req

\* C9: the planned components partition the required tables, and so do the
\* targetComponent and otherComponents given to a task.
C9_ComponentsPartition ==
    /\ plan.ok => Partition(plan.components, required)
    /\ \A i \in Tasks :
          (variant \in SchemaVariants /\ taskPc[i] # "idle")
              => Partition(<<target>> \o others, required)

\* A task ran for one of several planned components.
C9_Witness ==
    /\ variant \in SchemaVariants
    /\ taskPc[1] = "fulfilled"
    /\ Len(others) >= 1

\* The foreign fields of the application whose target model is missing.
Dangling(app) ==
    {s \in FieldSites(app) : FieldAt(app, s).relation.targetModel \notin ModelNames(app)}

\* C10: validate accepts only if every foreign field's target model exists
\* somewhere in the application, a target in another file being enough; and
\* once the target model is removed, validate rejects with a referential
\* integrity violation that names the field's path.
C10_ReferentialIntegrity ==
    (variant = "validate" /\ validation # NoValidation) =>
        /\ validation.accepted => Dangling(application) = {}
        /\ \A s \in FieldSites(application) :
              Violation("ReferentialIntegrity", PathOf(application, s))
                    \in validation.violations
                <=> s \in Dangling(application)
        /\ removed # <<>> =>
              \A s \in FieldSites(application) :
                  FieldAt(application, s).relation.targetModel = removed[1]
                      => /\ ~validation.accepted
                         /\ Violation("ReferentialIntegrity", PathOf(application, s))
                                \in validation.violations

\* The target model of a remaining foreign field was removed and the
\* violation names the field.
C10_Witness ==
    /\ variant = "validate"
    /\ removed # <<>>
    /\ \E s \in FieldSites(application) :
          /\ FieldAt(application, s).relation.targetModel = removed[1]
          /\ Violation("ReferentialIntegrity", PathOf(application, s))
                \in validation.violations

\* A name of one lowercase letter followed by lowercase letters, digits and
\* underscores.
LowerSnake(s) ==
    /\ s # <<>>
    /\ Head(s) \notin {"A", "1", "_"}
    /\ \A k \in DOMAIN s : s[k] # "A"

\* C11: in a schema that validate accepted, the name of every model, of its
\* primary field, of each foreign and plain field, and every field name
\* listed by a unique, plain or full-text index matches ^[a-z][a-z0-9_]*$.
C11_IdentifiersWellFormed ==
    (variant = "schema" /\ schemaCheck.accepted) =>
        \A m \in Range(schema.models) :
            /\ LowerSnake(m.name)
            /\ LowerSnake(m.primaryField.name)
            /\ \A k \in DOMAIN m.foreignFields : LowerSnake(m.foreignFields[k].name)
            /\ \A k \in DOMAIN m.plainFields : LowerSnake(m.plainFields[k].name)
            /\ \A k \in DOMAIN m.uniqueIndexes :
                  \A j \in DOMAIN m.uniqueIndexes[k].fieldNames :
                      LowerSnake(m.uniqueIndexes[k].fieldNames[j])
            /\ \A k \in DOMAIN m.plainIndexes :
                  \A j \in DOMAIN m.plainIndexes[k].fieldNames :
                      LowerSnake(m.plainIndexes[k].fieldNames[j])
            /\ \A k \in DOMAIN m.ginIndexes : LowerSnake(m.ginIndexes[k].fieldName)

\* An accepted schema whose model has fields of every kind and indexes of
\* every kind, over names that spell a digit and an underscore.
C11_Witness ==
    /\ variant = "schema"
    /\ schemaCheck.accepted
    /\ \E m \in Range(schema.models) :
          /\ m.foreignFields # <<>>
          /\ m.plainFields # <<>>
          /\ m.uniqueIndexes # <<>>
          /\ m.plainIndexes # <<>>
          /\ \E k \in DOMAIN m.ginIndexes : "1" \in Range(m.ginIndexes[k].fieldName)
          /\ \E k \in DOMAIN m.plainIndexes :
                \E j \in DOMAIN m.plainIndexes[k].fieldNames :
                    "_" \in Range(m.plainIndexes[k].fieldNames[j])

\* C12: in a schema that validate accepted, the field-name list of every
\* unique index and of every plain index is non-empty, names no field twice,
\* and names only fields of the owning model: its primary field, a foreign
\* field or a plain field.
C12_IndexListsSound ==
    (variant = "schema" /\ schemaCheck.accepted) =>
        \A m \in Range(schema.models) :
            \A l \in {m.uniqueIndexes[k].fieldNames : k \in DOMAIN m.uniqueIndexes}
                        \cup {m.plainIndexes[k].fieldNames : k \in DOMAIN m.plainIndexes} :
                /\ Len(l) > 0
                /\ Cardinality({l[j] : j \in DOMAIN l}) = Len(l)
                /\ \A j \in DOMAIN l :
                      \/ l[j] = m.primaryField.name
                      \/ \E k \in DOMAIN m.foreignFields : l[j] = m.foreignFields[k].name
                      \/ \E k \in DOMAIN m.plainFields : l[j] = m.plainFields[k].name

\* An accepted schema with an index over the primary field and a foreign
\* field, in a model that also has a plain field.
C12_Witness ==
    /\ variant = "schema"
    /\ schemaCheck.accepted
    /\ \E m \in Range(schema.models) :
          /\ m.plainFields # <<>>
          /\ \E k \in DOMAIN m.plainIndexes :
                /\ Len(m.plainIndexes[k].fieldNames) >= 2
                /\ m.primaryField.name \in Range(m.plainIndexes[k].fieldNames)
                /\ \E f \in DOMAIN m.foreignFields :
                      m.foreignFields[f].name \in Range(m.plainIndexes[k].fieldNames)

Rank(kind) ==
    CASE kind = "model" -> 0
      [] kind = "primary" -> 1
      [] kind = "foreign" -> 2
      [] kind = "plain" -> 3
      [] kind = "unique" -> 4
      [] kind = "index" -> 5
      [] OTHER -> 6

\* The lines of one kind that a text holds for one model, in text order.
LinesOf(text, name, kind) ==
    SelectSeq(text, LAMBDA l : l.of = name /\ l.kind = kind)

C15_InputsNotMutated ==
    [][(variant \in SchemaVariants /\ taskPc[1] # "idle") =>
          /\ target' = target
          /\ Len(others') = Len(others)
          /\ \A k \in DOMAIN others :
                /\ others'[k].filename = others[k].filename
                /\ others'[k].namespace = others[k].namespace
                /\ others'[k].tables = others[k].tables
          /\ llm' = llm
          /\ analyze' = analyze]_vars

\* A task given a target and another component failed, and both are as the
\* planner produced them.
C15_Witness ==
    /\ variant = "openai"
    /\ taskPc[1] = "rejected"
    /\ sent[1] = 1
    /\ others # <<>>
    /\ \E k \in DOMAIN plan.components :
          /\ target = plan.components[k]
          /\ others = Without(plan.components, k)

C17_WhatATaskReturns ==
    \A i \in Tasks :
        taskPc[i] = "fulfilled" =>
            IF variant = "openai"
                THEN /\ Len(toolCalls[i]) >= 1
                     /\ toolCalls[i][1].json
                     /\ ret[i] = toolCalls[i][1].value
                ELSE /\ calls[i] > 0 => ret[i] = lastCall[i][1]
                     /\ calls[i] = 0 =>
                           /\ variant = "number" => ret[i] = 0
                           /\ variant = "agentica" => ret[i] = Undefined
                           /\ variant = "make" => ret[i] = Null

\* A task returned null because no function call was executed in its
\* conversation.
C17_Witness ==
    /\ variant = "make"
    /\ taskPc[1] = "fulfilled"
    /\ sent[1] = 1
    /\ calls[1] = 0
    /\ ret[1] = Null

====
